---- MODULE Spec2Model ----
(***************************************************************************)
(* Model of src/pipeline/event_handler.rs: the ActiveEvents bit flags, the *)
(* EventHandler trait with its two implementors, `()` and                  *)
(* ChannelEventCollector, and the two crossbeam channels the collector's   *)
(* Sender fields feed.  Worker threads dispatch the events of their work   *)
(* lists through the configured handler; the consumer side of each channel *)
(* receives, stalls or is dropped.                                         *)
(***************************************************************************)
EXTENDS Integers, Sequences, FiniteSets, TLC

(* ------------------------------ bounds --------------------------------- *)
\* worker threads calling the handler concurrently
NumThreads == 2
\* handler calls made in one run, over all threads
MaxCalls == 3
\* largest capacity of a bounded channel (0 is the rendezvous channel)
MaxCap == 1

Threads == 1..NumThreads

(* --------------------------- ActiveEvents ------------------------------ *)
\* width of the bits field (u32)
BITS_WIDTH == 32
INTERSECTION_EVENTS == 1
CONTACT_EVENTS == 2

RECURSIVE BitAnd(_, _)
BitAnd(a, b) ==
    IF a = 0 \/ b = 0 THEN 0
    ELSE (IF a % 2 = 1 /\ b % 2 = 1 THEN 1 ELSE 0) + 2 * BitAnd(a \div 2, b \div 2)

RECURSIVE BitOr(_, _)
BitOr(a, b) ==
    IF a = 0 THEN b
    ELSE IF b = 0 THEN a
    ELSE (IF a % 2 = 1 \/ b % 2 = 1 THEN 1 ELSE 0) + 2 * BitOr(a \div 2, b \div 2)

RECURSIVE BitXor(_, _)
BitXor(a, b) ==
    IF a = 0 THEN b
    ELSE IF b = 0 THEN a
    ELSE (IF a % 2 # b % 2 THEN 1 ELSE 0) + 2 * BitXor(a \div 2, b \div 2)

\* ActiveEvents::empty()
empty == 0
\* ActiveEvents::all(): the union of the declared flags
all == BitOr(INTERSECTION_EVENTS, CONTACT_EVENTS)
\* the values of the type: bit patterns made of declared flags only
ActiveEvents == {m \in 0..all : BitAnd(m, all) = m}
\* ActiveEvents::from_bits_truncate
from_bits_truncate(raw) == BitAnd(raw % (2 ^ BITS_WIDTH), all)
\* self.contains(other)
contains(self, other) == BitAnd(self, other) = other
\* self.intersects(other)
intersects(self, other) == BitAnd(self, other) # empty
\* self | other
bitor_and(self, other) == BitAnd(self, other)
bitor(self, other) == BitOr(self, other)
\* self & other
bitand(self, other) == BitAnd(self, other)
\* self ^ other
bitxor(self, other) == BitXor(self, other)
\* self - other
sub(self, other) == BitAnd(self, BitXor(all, BitAnd(other, all)))
\* !self
not(self) == BitXor(all, BitAnd(self, all))
\* <ActiveEvents as Default>::default()
default_all == BitOr(INTERSECTION_EVENTS, CONTACT_EVENTS)
default == empty

(* ------------------------------ events --------------------------------- *)
IntersectionEvent ==
    [collider1 : {1}, collider2 : {2}, intersecting : BOOLEAN]
        \cup {[collider1 |-> 3, collider2 |-> 4, intersecting |-> TRUE]}
ContactEvent ==
    [tag : {"Started", "Stopped"}, collider1 : {1}, collider2 : {2}]
\* the borrowed manifold detail of a contact call (number of contact points)
ContactPair == {1, 2}

\* the two event categories, one channel each
Chans == {"intersection", "contact"}
\* one handler call of a worker's work list
WorkItem ==
    [kind : {"intersection"}, event : IntersectionEvent]
        \cup [kind : {"contact"}, event : ContactEvent]

RECURSIVE SeqsUpTo(_, _)
SeqsUpTo(S, n) ==
    IF n = 0 THEN {<<>>}
    ELSE LET shorter == SeqsUpTo(S, n - 1)
         IN shorter \cup {Append(s, x) : s \in {q \in shorter : Len(q) = n - 1}, x \in S}

RECURSIVE SumLen(_, _)
SumLen(f, T) ==
    IF T = {} THEN 0
    ELSE LET t == CHOOSE x \in T : TRUE IN Len(f[t]) + SumLen(f, T \ {t})

\* one event per category, for the runs in which several workers share the calls
ProgressItem ==
    {[kind |-> "intersection",
      event |-> [collider1 |-> 1, collider2 |-> 2, intersecting |-> TRUE]],
     [kind |-> "contact",
      event |-> [tag |-> "Started", collider1 |-> 1, collider2 |-> 2]]}

\* the work lists the detection pipeline hands to its workers: the calls are
\* split among the workers in every way
WorkLists(items) ==
    {w \in [Threads -> SeqsUpTo(items, MaxCalls)] : SumLen(w, Threads) <= MaxCalls}

\* the work lists with every call on the first worker
SoloLists(items) ==
    {[t \in Threads |-> IF t = 1 THEN q ELSE <<>>] : q \in SeqsUpTo(items, MaxCalls)}

(* ------------------------------ state ---------------------------------- *)
VARIABLES
    handler,        \* the EventHandler the pipeline is configured with
    script,         \* script[t]: the calls worker t makes, in order
    pos,            \* pos[t]: number of calls worker t has started
    pc,             \* pc[t]: "idle", or the handler method worker t is in
    event,          \* event[t]: the event argument of the call in progress
    contact_pair,   \* contact_pair[t]: the borrowed &ContactPair of the call
    result,         \* result[t]: the Result of send in worker t's latest call
    cap,            \* cap[c]: capacity of channel c, Unbounded for a list channel
    queue,          \* queue[c]: messages pending in channel c
    alive,          \* alive[c]: some Receiver of channel c still exists
    draining,       \* the channels whose consumer keeps receiving
    received,       \* received[c]: what the consumer of c has received so far
    flags_lhs, flags_rhs, flags_out, flags_test, flags_op   \* ActiveEvents operations

flags_vars == <<flags_lhs, flags_rhs, flags_out, flags_test, flags_op>>
vars == <<handler, script, pos, pc, event, contact_pair, result, cap, queue,
          alive, draining, received,
          flags_lhs, flags_rhs, flags_out, flags_test, flags_op>>

\* Sender::capacity() == None
Unbounded == -1
Capacities == {Unbounded} \cup 0..MaxCap
NoEvent == [none |-> TRUE]
NoPair == 0


(* ------------------------- crossbeam channel --------------------------- *)
\* a pending message: the event sent, with the call it came from (thread, index)
Msg(t) == [event |-> event[t], by |-> t, seq |-> pos[t]]

\* every Receiver of the channel has been dropped
is_disconnected(c) == ~alive[c]

\* the channel cannot take one more message (a list channel is never full)
is_full_bounded_list(c) == Len(queue[c]) >= (IF cap[c] = Unbounded THEN MaxCap ELSE cap[c])
is_full(c) == cap[c] # Unbounded /\ Len(queue[c]) >= cap[c]

\* Sender::send when it completes by the sender's own doing: Err(SendError(msg))
\* on a disconnected channel, else Ok(()) once the message is in the buffer.
\* On a full channel it waits (no step).
send_result(c) == IF is_disconnected(c) THEN "Err" ELSE "Ok"
send_drop_oldest(c, msg) ==
    \/ /\ is_disconnected(c)
       /\ UNCHANGED queue
    \/ /\ ~is_disconnected(c)
       /\ cap[c] # 0
       /\ queue' = [queue EXCEPT ![c] =
                        IF is_full(c) THEN Append(Tail(@), msg) ELSE Append(@, msg)]
send_push_front(c, msg) ==
    \/ /\ is_disconnected(c)
       /\ UNCHANGED queue
    \/ /\ ~is_disconnected(c)
       /\ ~is_full(c)
       /\ queue' = [queue EXCEPT ![c] = <<msg>> \o @]
send_twice(c, msg) ==
    \/ /\ is_disconnected(c)
       /\ UNCHANGED queue
    \/ /\ ~is_disconnected(c)
       /\ ~is_full(c)
       /\ queue' = [queue EXCEPT ![c] = Append(Append(@, msg), msg)]
send_replace(c, msg) ==
    \/ /\ is_disconnected(c)
       /\ UNCHANGED queue
    \/ /\ ~is_disconnected(c)
       /\ cap[c] # 0
       /\ queue' = [queue EXCEPT ![c] = <<msg>>]
send_try(c, msg) ==
    \/ /\ is_disconnected(c)
       /\ UNCHANGED queue
    \/ /\ ~is_disconnected(c)
       /\ queue' = [queue EXCEPT ![c] = IF is_full(c) THEN @ ELSE Append(@, msg)]
send_dedup(c, msg) ==
    \/ /\ is_disconnected(c)
       /\ UNCHANGED queue
    \/ /\ ~is_disconnected(c)
       /\ ~is_full(c)
       /\ queue' = [queue EXCEPT ![c] =
                        IF \E i \in DOMAIN @ : @[i].event = msg.event
                        THEN @ ELSE Append(@, msg)]
send(c, msg) ==
    \/ /\ is_disconnected(c)
       /\ UNCHANGED queue
    \/ /\ ~is_disconnected(c)
       /\ ~is_full(c)
       /\ queue' = [queue EXCEPT ![c] = Append(@, msg)]

\* `let _ = <Result>;` drops the Result and the method returns
let_underscore_unwrap(res) == IF res = "Err" THEN "panicked" ELSE "idle"
let_underscore(res) == "idle"

(* ----------------------- ChannelEventCollector ------------------------- *)
\* the channel each Sender field of the collector feeds
intersection_event_sender_crossed == "contact"
intersection_event_sender == "intersection"
contact_event_sender_crossed == "intersection"
contact_event_sender == "contact"

sender(kind) ==
    IF kind = "intersection" THEN intersection_event_sender ELSE contact_event_sender

InCall(t) == pc[t] \in {"handle_intersection_event", "handle_contact_event"}
\* the channel the call in progress of worker t sends on
CallChan(t) ==
    IF pc[t] = "handle_intersection_event"
    THEN intersection_event_sender ELSE contact_event_sender

Init ==
    /\ handler \in {"ChannelEventCollector", "()"}
    /\ script \in WorkLists(ProgressItem) \cup SoloLists(WorkItem)
    /\ pos = [t \in Threads |-> 0]
    /\ pc = [t \in Threads |-> "idle"]
    /\ event = [t \in Threads |-> NoEvent]
    /\ contact_pair = [t \in Threads |-> NoPair]
    /\ result = [t \in Threads |-> "none"]
    /\ cap \in [Chans -> Capacities]
    /\ (handler = "()" => cap = [c \in Chans |-> Unbounded])
    /\ queue = [c \in Chans |-> <<>>]
    /\ alive = [c \in Chans |-> TRUE]
    /\ draining = Chans
    /\ received = [c \in Chans |-> <<>>]
    /\ flags_lhs = default /\ flags_rhs = default /\ flags_out = default
    /\ flags_test = FALSE /\ flags_op = "default"

\* the next call of worker t's work list
NextItem(t) == script[t][pos[t] + 1]

\* the pipeline calls handler.handle_intersection_event(event)
call_handle_intersection_event(t) ==
    /\ handler = "ChannelEventCollector"
    /\ pc[t] = "idle"
    /\ pos[t] < Len(script[t])
    /\ NextItem(t).kind = "intersection"
    /\ pc' = [pc EXCEPT ![t] = "handle_intersection_event"]
    /\ pos' = [pos EXCEPT ![t] = @ + 1]
    /\ event' = [event EXCEPT ![t] = NextItem(t).event]
    /\ result' = [result EXCEPT ![t] = "none"]
    /\ UNCHANGED <<handler, script, contact_pair, cap, queue, alive, draining, received>>
    /\ UNCHANGED flags_vars

\* the pipeline calls handler.handle_contact_event(event, &contact_pair)
call_handle_contact_event(t, p) ==
    /\ handler = "ChannelEventCollector"
    /\ pc[t] = "idle"
    /\ pos[t] < Len(script[t])
    /\ NextItem(t).kind = "contact"
    /\ pc' = [pc EXCEPT ![t] = "handle_contact_event"]
    /\ pos' = [pos EXCEPT ![t] = @ + 1]
    /\ event' = [event EXCEPT ![t] = NextItem(t).event]
    /\ contact_pair' = [contact_pair EXCEPT ![t] = p]
    /\ result' = [result EXCEPT ![t] = "none"]
    /\ UNCHANGED <<handler, script, cap, queue, alive, draining, received>>
    /\ UNCHANGED flags_vars

\* the statement ends with the Result `res` of send; the frame of the call is gone
Return(t, res) ==
    /\ result' = [result EXCEPT ![t] = res]
    /\ pc' = [pc EXCEPT ![t] = let_underscore(res)]
    /\ event' = [event EXCEPT ![t] = NoEvent]
    /\ contact_pair' = [contact_pair EXCEPT ![t] = NoPair]

\* let _ = self.intersection_event_sender.send(event);
handle_intersection_event(t) ==
    /\ pc[t] = "handle_intersection_event"
    /\ send(intersection_event_sender, Msg(t))
    /\ Return(t, send_result(intersection_event_sender))
    /\ UNCHANGED <<handler, script, pos, cap, alive, draining, received>>
    /\ UNCHANGED flags_vars

\* let _ = self.contact_event_sender.send(event);
handle_contact_event_from_pair(t) ==
    /\ pc[t] = "handle_contact_event"
    /\ send(contact_event_sender,
            [Msg(t) EXCEPT !.event.tag = IF contact_pair[t] = 2 THEN "Stopped" ELSE @])
    /\ Return(t, send_result(contact_event_sender))
    /\ UNCHANGED <<handler, script, pos, cap, alive, draining, received>>
    /\ UNCHANGED flags_vars
handle_contact_event_both(t) ==
    /\ pc[t] = "handle_contact_event"
    /\ ~is_disconnected(contact_event_sender)
    /\ ~is_full(contact_event_sender)
    /\ queue' = [c \in Chans |-> Append(queue[c], Msg(t))]
    /\ Return(t, "Ok")
    /\ UNCHANGED <<handler, script, pos, cap, alive, draining, received>>
    /\ UNCHANGED flags_vars
handle_contact_event_after_intersection(t) ==
    /\ pc[t] = "handle_contact_event"
    /\ queue[intersection_event_sender] = <<>>
    /\ send(contact_event_sender, Msg(t))
    /\ Return(t, send_result(contact_event_sender))
    /\ UNCHANGED <<handler, script, pos, cap, alive, draining, received>>
    /\ UNCHANGED flags_vars
handle_contact_event(t) ==
    /\ pc[t] = "handle_contact_event"
    /\ send(contact_event_sender, Msg(t))
    /\ Return(t, send_result(contact_event_sender))
    /\ UNCHANGED <<handler, script, pos, cap, alive, draining, received>>
    /\ UNCHANGED flags_vars

\* send on a zero-capacity channel completes only by handing the message to a
\* receiver that is receiving: one step of the sender and the consumer together
Rendezvous(t) ==
    /\ InCall(t)
    /\ LET c == CallChan(t) IN
        /\ ~is_disconnected(c)
        /\ cap[c] = 0
        /\ c \in draining
        /\ received' = [received EXCEPT ![c] = Append(@, Msg(t))]
        /\ Return(t, "Ok")
    /\ UNCHANGED <<handler, script, pos, cap, queue, alive, draining>>
    /\ UNCHANGED flags_vars

(* ---------------------- impl EventHandler for () ----------------------- *)
\* the empty method body
unit_body_enqueue(t) ==
    /\ queue' = [queue EXCEPT ![sender(NextItem(t).kind)] =
                    Append(@, [event |-> NextItem(t).event, by |-> t, seq |-> pos[t] + 1])]
    /\ UNCHANGED <<cap, alive, received>>
unit_body(t) == UNCHANGED <<cap, queue, alive, received>>

\* fn handle_intersection_event(&self, _event: IntersectionEvent) {}
unit_handle_intersection_event(t) ==
    /\ handler = "()"
    /\ pc[t] = "idle"
    /\ pos[t] < Len(script[t])
    /\ NextItem(t).kind = "intersection"
    /\ pos' = [pos EXCEPT ![t] = @ + 1]
    /\ unit_body(t)
    /\ UNCHANGED <<handler, script, pc, event, contact_pair, result, draining>>
    /\ UNCHANGED flags_vars

\* fn handle_contact_event(&self, _event: ContactEvent, _contact_pair: &ContactPair) {}
unit_handle_contact_event(t, p) ==
    /\ handler = "()"
    /\ pc[t] = "idle"
    /\ pos[t] < Len(script[t])
    /\ NextItem(t).kind = "contact"
    /\ pos' = [pos EXCEPT ![t] = @ + 1]
    /\ unit_body(t)
    /\ UNCHANGED <<handler, script, pc, event, contact_pair, result, draining>>
    /\ UNCHANGED flags_vars

(* --------------------------- consumer side ----------------------------- *)
\* Receiver::recv / try_recv takes the oldest pending message
Recv(c) ==
    /\ alive[c]
    /\ c \in draining
    /\ queue[c] # <<>>
    /\ received' = [received EXCEPT ![c] = Append(@, Head(queue[c]))]
    /\ queue' = [queue EXCEPT ![c] = Tail(@)]
    /\ UNCHANGED <<handler, script, pos, pc, event, contact_pair, result, cap, alive, draining>>
    /\ UNCHANGED flags_vars

\* the last Receiver is dropped: the channel disconnects, pending messages go
DropReceiver(c) ==
    /\ alive[c]
    /\ alive' = [alive EXCEPT ![c] = FALSE]
    /\ queue' = [queue EXCEPT ![c] = <<>>]
    /\ UNCHANGED <<handler, script, pos, pc, event, contact_pair, result, cap, draining, received>>
    /\ UNCHANGED flags_vars

Next ==
    \/ \E t \in Threads : call_handle_intersection_event(t)
    \/ \E t \in Threads, p \in ContactPair : call_handle_contact_event(t, p)
    \/ \E t \in Threads : handle_intersection_event(t)
    \/ \E t \in Threads : handle_contact_event(t)
    \/ \E t \in Threads : Rendezvous(t)
    \/ \E t \in Threads : unit_handle_intersection_event(t)
    \/ \E t \in Threads, p \in ContactPair : unit_handle_contact_event(t, p)
    \/ \E c \in Chans : Recv(c)
    \/ \E c \in Chans : DropReceiver(c)

Spec == Init /\ [][Next]_vars

(* ------------------ a consumer that keeps draining --------------------- *)
\* no Receiver is ever dropped; the consumers in `draining` keep receiving,
\* the consumer of any other channel is stalled for good
FairInit ==
    /\ handler = "ChannelEventCollector"
    /\ script \in WorkLists(ProgressItem)
    /\ pos = [t \in Threads |-> 0]
    /\ pc = [t \in Threads |-> "idle"]
    /\ event = [t \in Threads |-> NoEvent]
    /\ contact_pair = [t \in Threads |-> NoPair]
    /\ result = [t \in Threads |-> "none"]
    /\ cap \in [Chans -> Capacities]
    /\ queue = [c \in Chans |-> <<>>]
    /\ alive = [c \in Chans |-> TRUE]
    /\ draining \in {Chans, {"intersection"}, {"contact"}}
    /\ received = [c \in Chans |-> <<>>]
    /\ flags_lhs = default /\ flags_rhs = default /\ flags_out = default
    /\ flags_test = FALSE /\ flags_op = "default"

\* what worker t does by itself
WorkerStep(t) ==
    \/ call_handle_intersection_event(t)
    \/ \E p \in ContactPair : call_handle_contact_event(t, p)
    \/ handle_intersection_event(t)
    \/ handle_contact_event(t)

FairNext ==
    \/ \E t \in Threads : call_handle_intersection_event(t)
    \/ \E t \in Threads, p \in ContactPair : call_handle_contact_event(t, p)
    \/ \E t \in Threads : handle_intersection_event(t)
    \/ \E t \in Threads : handle_contact_event(t)
    \/ \E t \in Threads : Rendezvous(t)
    \/ \E c \in Chans : Recv(c)

\* every worker thread is scheduled, and a draining consumer receives
Fairness ==
    /\ \A t \in Threads : WF_vars(WorkerStep(t))
    /\ \A t \in Threads : WF_vars(Rendezvous(t))
    /\ \A c \in Chans : WF_vars(Recv(c))

FairSpec == FairInit /\ [][FairNext]_vars /\ Fairness

(* --------------------- ActiveEvents as a value type -------------------- *)
FlagsInit ==
    /\ handler = "()"
    /\ script = [t \in Threads |-> <<>>]
    /\ pos = [t \in Threads |-> 0]
    /\ pc = [t \in Threads |-> "idle"]
    /\ event = [t \in Threads |-> NoEvent]
    /\ contact_pair = [t \in Threads |-> NoPair]
    /\ result = [t \in Threads |-> "none"]
    /\ cap = [c \in Chans |-> Unbounded]
    /\ queue = [c \in Chans |-> <<>>]
    /\ alive = [c \in Chans |-> TRUE]
    /\ draining = Chans
    /\ received = [c \in Chans |-> <<>>]
    /\ flags_lhs \in ActiveEvents
    /\ flags_rhs \in ActiveEvents
    /\ flags_out = default
    /\ flags_test = FALSE
    /\ flags_op = "default"

FlagsFrame ==
    UNCHANGED <<handler, script, pos, pc, event, contact_pair, result, cap, queue,
                alive, draining, received, flags_lhs, flags_rhs>>

\* flags_out = flags_lhs | flags_rhs
FlagsBitOr ==
    /\ flags_op = "default"
    /\ flags_op' = "bitor"
    /\ flags_out' = bitor(flags_lhs, flags_rhs)
    /\ flags_test' = FALSE
    /\ FlagsFrame

\* flags_out = flags_lhs & flags_rhs
FlagsBitAnd ==
    /\ flags_op = "default"
    /\ flags_op' = "bitand"
    /\ flags_out' = bitand(flags_lhs, flags_rhs)
    /\ flags_test' = FALSE
    /\ FlagsFrame

\* flags_out = flags_lhs ^ flags_rhs
FlagsBitXor ==
    /\ flags_op = "default"
    /\ flags_op' = "bitxor"
    /\ flags_out' = bitxor(flags_lhs, flags_rhs)
    /\ flags_test' = FALSE
    /\ FlagsFrame

\* flags_out = flags_lhs - flags_rhs
FlagsSub ==
    /\ flags_op = "default"
    /\ flags_op' = "sub"
    /\ flags_out' = sub(flags_lhs, flags_rhs)
    /\ flags_test' = FALSE
    /\ FlagsFrame

\* flags_out = !flags_lhs
FlagsNot ==
    /\ flags_op = "default"
    /\ flags_op' = "not"
    /\ flags_out' = not(flags_lhs)
    /\ flags_test' = FALSE
    /\ FlagsFrame

\* flags_test = flags_lhs.contains(flags_rhs)
FlagsContains ==
    /\ flags_op = "default"
    /\ flags_op' = "contains"
    /\ flags_test' = contains(flags_lhs, flags_rhs)
    /\ flags_out' = flags_out
    /\ FlagsFrame

\* flags_test = flags_lhs.intersects(flags_rhs)
FlagsIntersects ==
    /\ flags_op = "default"
    /\ flags_op' = "intersects"
    /\ flags_test' = intersects(flags_lhs, flags_rhs)
    /\ flags_out' = flags_out
    /\ FlagsFrame

\* flags_out = ActiveEvents::default()
FlagsDefault ==
    /\ flags_op = "default"
    /\ flags_op' = "fresh"
    /\ flags_out' = default
    /\ flags_test' = FALSE
    /\ FlagsFrame

FlagsNext ==
    \/ FlagsDefault
    \/ FlagsBitOr
    \/ FlagsBitAnd
    \/ FlagsBitXor
    \/ FlagsSub
    \/ FlagsNot
    \/ FlagsContains
    \/ FlagsIntersects

FlagsSpec == FlagsInit /\ [][FlagsNext]_vars

(* ============================ properties =============================== *)
\* what has ever been put on the stream of category c and not been discarded:
\* the messages the consumer received, then the messages still pending
Stream(c) == received[c] \o queue[c]

Other(c) == IF c = "intersection" THEN "contact" ELSE "intersection"

\* the category of the method worker t is in
CallCategory(t) ==
    IF pc[t] = "handle_intersection_event" THEN "intersection" ELSE "contact"

\* the step by which worker t's call completes without any consumer taking part
OwnStep(t) == handle_intersection_event(t) \/ handle_contact_event(t)

\* worker t's call in progress ends in this step
CallEnds(t) == InCall(t) /\ pc'[t] # pc[t]

\* the message of call number k of worker t
CallMsg(t, k) == [event |-> script[t][k].event, by |-> t, seq |-> k]

\* how often the message of call k of worker t occurs in a sequence of messages
Count(msgs, t, k) ==
    Cardinality({i \in DOMAIN msgs : msgs[i].by = t /\ msgs[i].seq = k})

Events(msgs) == [i \in DOMAIN msgs |-> msgs[i].event]

\* the consumer has received the message of call k of worker t, once
Observed(t, k) ==
    /\ k <= Len(script[t])
    /\ LET c == script[t][k].kind IN
        /\ Count(received[c], t, k) = 1
        /\ \E i \in DOMAIN received[c] : received[c][i] = CallMsg(t, k)

\* the message of call k of worker t is on the stream of its category, once
OnStream(t, k) ==
    /\ k <= Len(script[t])
    /\ LET c == script[t][k].kind IN
        /\ Count(Stream(c), t, k) = 1
        /\ \E i \in DOMAIN Stream(c) : Stream(c)[i] = CallMsg(t, k)

(* C1: whatever the interleaving, every message on the intersection stream *)
(* is an IntersectionEvent that some worker passed to                      *)
(* handle_intersection_event, and every message on the contact stream is a *)
(* ContactEvent passed to handle_contact_event: no call puts anything on   *)
(* the stream of the other category.                                       *)
C1_StreamsCarryOwnCategory ==
    \A c \in Chans : \A i \in DOMAIN Stream(c) :
        LET m == Stream(c)[i] IN
            /\ m.by \in Threads
            /\ m.seq \in 1..pos[m.by]
            /\ script[m.by][m.seq].kind = c
            /\ script[m.by][m.seq].event = m.event
            /\ (c = "intersection" => m.event \in IntersectionEvent)
            /\ (c = "contact" => m.event \in ContactEvent)

\* both streams carry messages, sent by different workers
C1_Witness ==
    /\ received["intersection"] # <<>>
    /\ Stream("contact") # <<>>
    /\ \E i \in DOMAIN Stream("intersection"), j \in DOMAIN Stream("contact") :
            Stream("intersection")[i].by # Stream("contact")[j].by

(* C2: with no Receiver dropped, every event a worker passes to a handler  *)
(* of a category whose consumer keeps draining is eventually received by   *)
(* that consumer, and no message of any call is ever on a stream twice:    *)
(* nothing is lost, nothing is duplicated, whatever the order across       *)
(* workers.                                                                *)
C2_ObservedExactlyOnce ==
    /\ [](\A c \in Chans : \A t \in Threads : \A k \in 1..pos[t] :
            /\ Count(Stream(c), t, k) <= 1
            /\ Count(Stream(c), t, k) = 1 => script[t][k].kind = c)
    /\ []<>(\A t \in Threads : \A k \in 1..pos[t] :
                script[t][k].kind \in draining => Observed(t, k))

\* the consumer has received events that two workers sent into one stream
C2_Witness ==
    \E c \in Chans :
        /\ c \in draining
        /\ queue[c] = <<>>
        /\ \A t \in Threads : pos[t] = Len(script[t]) /\ pc[t] = "idle"
        /\ \E i, j \in DOMAIN received[c] : received[c][i].by # received[c][j].by

(* C3 as stated: no handler call ever blocks, whatever channels the two    *)
(* Senders given to ChannelEventCollector::new belong to: a worker inside  *)
(* a handler method can always complete the call by a step of its own.     *)
C3_NeverBlocksAnyChannel ==
    \A t \in Threads : InCall(t) => ENABLED OwnStep(t)

(* C3 amended: a handler call whose Sender belongs to an unbounded channel *)
(* never blocks: the worker can always complete it by one step of its own, *)
(* however many messages are pending, and that step returns.               *)
C3_NeverBlocksUnbounded ==
    /\ [](\A t \in Threads :
            (InCall(t) /\ cap[CallCategory(t)] = Unbounded) => ENABLED OwnStep(t))
    /\ [][\A t \in Threads :
            (CallEnds(t) /\ cap[CallCategory(t)] = Unbounded) => pc'[t] = "idle"]_vars

\* every call of the run has returned Ok on an unbounded channel nobody drained
C3_Witness ==
    \E c \in Chans :
        /\ cap[c] = Unbounded
        /\ alive[c]
        /\ received[c] = <<>>
        /\ Len(queue[c]) > MaxCap + 1
        /\ \A t \in Threads : pc[t] = "idle"

(* C4: once the Receiver of a category is dropped, a call of that          *)
(* category's handler can always complete by the worker's own step, and    *)
(* the step that ends it returns normally with the Err discarded, sends    *)
(* nothing again and changes no stream; a call of the other category,      *)
(* whose Receiver is alive, still ends with Ok and its event appended to   *)
(* its own stream.                                                         *)
C4_SendAfterDropIsSilent ==
    /\ [](\A t \in Threads :
            (InCall(t) /\ ~alive[CallCategory(t)]) => ENABLED OwnStep(t))
    /\ [][\A t \in Threads : \A c \in Chans :
            /\ (CallEnds(t) /\ c = CallCategory(t) /\ ~alive[c]) =>
                    /\ pc'[t] = "idle"
                    /\ result'[t] = "Err"
                    /\ queue' = queue
                    /\ received' = received
                    /\ alive' = alive
            /\ (CallEnds(t) /\ c = CallCategory(t) /\ alive[c] /\ ~alive[Other(c)]) =>
                    /\ pc'[t] = "idle"
                    /\ result'[t] = "Ok"
                    /\ received'[c] \o queue'[c] = Append(Stream(c), CallMsg(t, pos[t]))
                    /\ queue'[Other(c)] = queue[Other(c)]
                    /\ received'[Other(c)] = received[Other(c)]
         ]_vars

\* worker t's call on the dropped category c returned with its Err discarded
\* (on a zero-capacity channel an Ok would have left the message with the
\* consumer), and its next call, of the other category, enqueued its event
C4_Witness ==
    \E t \in Threads : \E c \in Chans :
        /\ ~alive[c]
        /\ cap[c] = 0
        /\ alive[Other(c)]
        /\ pos[t] >= 2
        /\ pc[t] = "idle"
        /\ result[t] = "Ok"
        /\ script[t][pos[t] - 1].kind = c
        /\ script[t][pos[t]].kind = Other(c)
        /\ Count(Stream(c), t, pos[t] - 1) = 0
        /\ Count(queue[Other(c)], t, pos[t]) = 1

(* C5 as stated: when the consumer of one category never drains, every     *)
(* call of the other category's handler that a worker has on its work list *)
(* (also after calls of the stalled category) still eventually puts its    *)
(* event on the other category's stream.                                   *)
C5_StalledConsumerNeverDelays ==
    <>(\A t \in Threads : \A k \in 1..Len(script[t]) :
            (draining # Chans /\ script[t][k].kind \in draining) => OnStream(t, k))

(* C5 amended: when the consumer of one category never drains and that     *)
(* category's channel is unbounded, every call of the other category's     *)
(* handler on a worker's work list still eventually puts its event on the  *)
(* other category's stream (whose consumer is alive and keeps draining).   *)
C5_StalledUnboundedNeverDelays ==
    <>(\A t \in Threads : \A k \in 1..Len(script[t]) :
            (/\ draining # Chans
             /\ \A c \in Chans \ draining : cap[c] = Unbounded
             /\ script[t][k].kind \in draining) => OnStream(t, k))

\* a worker sent two events into the stalled, unbounded stream, where they
\* stay pending, and then delivered an event of the other category
C5_Witness ==
    \E t \in Threads : \E c \in Chans :
        /\ draining = {Other(c)}
        /\ cap[c] = Unbounded
        /\ received[c] = <<>>
        /\ pos[t] = 3
        /\ script[t][1].kind = c
        /\ script[t][2].kind = c
        /\ script[t][3].kind = Other(c)
        /\ Count(queue[c], t, 1) = 1
        /\ Count(queue[c], t, 2) = 1
        /\ OnStream(t, 3)

(* C6: on each stream, the messages of one worker are in the order of the  *)
(* worker's calls, also with messages of other workers in between: the     *)
(* consumer receives an earlier call's event before a later call's.        *)
C6_FifoPerThread ==
    \A c \in Chans : \A i, j \in DOMAIN Stream(c) :
        (i < j /\ Stream(c)[i].by = Stream(c)[j].by)
            => Stream(c)[i].seq < Stream(c)[j].seq

\* two events of one worker on a stream with another worker's event between
C6_Witness ==
    \E c \in Chans :
        /\ Len(Stream(c)) = 3
        /\ Stream(c)[1].by = Stream(c)[3].by
        /\ Stream(c)[2].by # Stream(c)[1].by
        /\ received[c] # <<>>

\* the intersection events among the first n calls of a work list, in order
RECURSIVE IntersectionEventsSent(_, _)
IntersectionEventsSent(w, n) ==
    IF n = 0 THEN <<>>
    ELSE IF w[n].kind = "intersection"
         THEN Append(IntersectionEventsSent(w, n - 1), w[n].event)
         ELSE IntersectionEventsSent(w, n - 1)

(* C7: when one worker alone has sent N intersection events through a      *)
(* collector whose intersection Receiver was never dropped, and the        *)
(* consumer has drained the queue, the consumer holds exactly those N      *)
(* events, equal to the ones sent and in the order they were sent.         *)
C7_DrainYieldsSentSequence ==
    \A t \in Threads :
        (/\ handler = "ChannelEventCollector"
         /\ alive["intersection"]
         /\ queue["intersection"] = <<>>
         /\ \A u \in Threads : pc[u] = "idle"
         /\ \A u \in Threads \ {t} : IntersectionEventsSent(script[u], pos[u]) = <<>>)
        => Events(received["intersection"]) = IntersectionEventsSent(script[t], pos[t])

\* the scenario of the specification: (1,2,true), (1,2,false), (3,4,true)
C7_Witness ==
    /\ alive["intersection"]
    /\ queue["intersection"] = <<>>
    /\ \E t \in Threads : pos[t] = 3 /\ pc[t] = "idle"
    /\ Events(received["intersection"]) =
            << [collider1 |-> 1, collider2 |-> 2, intersecting |-> TRUE],
               [collider1 |-> 1, collider2 |-> 2, intersecting |-> FALSE],
               [collider1 |-> 3, collider2 |-> 4, intersecting |-> TRUE] >>

(* C8 as stated: a handler call that ends with Ok has raised the number of *)
(* pending messages of exactly one queue by one and left the other queue   *)
(* as it was; a call that ends with Err has changed no queue and nothing   *)
(* else a consumer or another worker can observe.                          *)
C8_SuccessAddsOnePending ==
    [][\A t \in Threads :
        CallEnds(t) =>
            /\ result'[t] = "Ok" =>
                    \E c \in Chans :
                        /\ Len(queue'[c]) = Len(queue[c]) + 1
                        /\ queue'[Other(c)] = queue[Other(c)]
            /\ result'[t] = "Err" =>
                    /\ queue' = queue
                    /\ received' = received
                    /\ alive' = alive
                    /\ cap' = cap
      ]_vars

(* C8 amended: a handler call that ends with Ok has added exactly one      *)
(* message, its event, to its own category's stream and left the other     *)
(* category's queue as it was: the message is one more pending item of the *)
(* queue, except on a zero-capacity channel, where it goes straight to the *)
(* receiver taking it and no pending count changes.  A call that ends with *)
(* Err has changed no queue and nothing else observable.                   *)
C8_SuccessAddsOneMessage ==
    [][\A t \in Threads : \A c \in Chans :
        (CallEnds(t) /\ c = CallCategory(t)) =>
            /\ result'[t] \in {"Ok", "Err"}
            /\ result'[t] = "Ok" =>
                    /\ cap[c] # 0 =>
                            /\ queue'[c] = Append(queue[c], CallMsg(t, pos[t]))
                            /\ received' = received
                    /\ cap[c] = 0 =>
                            /\ received'[c] = Append(received[c], CallMsg(t, pos[t]))
                            /\ received'[Other(c)] = received[Other(c)]
                            /\ queue'[c] = queue[c]
                    /\ queue'[Other(c)] = queue[Other(c)]
                    /\ alive' = alive
                    /\ cap' = cap
            /\ result'[t] = "Err" =>
                    /\ queue' = queue
                    /\ received' = received
                    /\ alive' = alive
                    /\ cap' = cap
      ]_vars

\* one worker's call has ended with Ok, its message pending, and another
\* worker's call has ended with Err
C8_Witness ==
    \E t, u \in Threads : \E c \in Chans :
        /\ pc[t] = "idle" /\ result[t] = "Ok"
        /\ script[t][pos[t]].kind = c
        /\ Count(queue[c], t, pos[t]) = 1
        /\ pc[u] = "idle" /\ result[u] = "Err"
        /\ script[u][pos[u]].kind = Other(c)
        /\ queue[Other(c)] = <<>>

(* C9: with the unit handler `()` configured, every call, of either        *)
(* method and with any event, returns at once and changes nothing: no      *)
(* channel, queue or receiver state changes, and nothing is ever on any    *)
(* stream.                                                                 *)
C9_UnitHandlerHasNoEffect ==
    /\ [](handler = "()" =>
            /\ \A c \in Chans : Stream(c) = <<>>
            /\ \A t \in Threads : pc[t] = "idle" /\ result[t] = "none")
    /\ [][\A t \in Threads :
            (handler = "()" /\ pos'[t] # pos[t]) =>
                /\ pos'[t] = pos[t] + 1
                /\ UNCHANGED <<handler, script, pc, event, contact_pair, result,
                               cap, queue, alive, draining, received>>
         ]_vars

\* the unit handler has been called with an intersection event and with a
\* contact event, by two workers
C9_Witness ==
    /\ handler = "()"
    /\ \E t, u \in Threads :
        /\ t # u
        /\ pos[t] >= 2
        /\ pos[u] >= 1
        /\ script[t][1].kind = "intersection"
        /\ script[t][2].kind = "contact"

\* the named flags of ActiveEvents
NamedFlags == {INTERSECTION_EVENTS, CONTACT_EVENTS}
\* bit f (a power of two) is set in the bits m
HasBit(m, f) == (m \div f) % 2 = 1

(* C10: the OR of two distinct single-bit masks contains both bits and no  *)
(* other bit; and empty | INTERSECTION_EVENTS contains INTERSECTION_EVENTS *)
(* and does not contain CONTACT_EVENTS.                                    *)
C10_OrIsUnion ==
    flags_op = "bitor" =>
        /\ (flags_lhs \in NamedFlags /\ flags_rhs \in NamedFlags /\ flags_lhs # flags_rhs) =>
                /\ contains(flags_out, flags_lhs)
                /\ contains(flags_out, flags_rhs)
                /\ \A f \in NamedFlags : HasBit(flags_out, f) <=> f \in {flags_lhs, flags_rhs}
                /\ flags_out = flags_lhs + flags_rhs
        /\ (flags_lhs = empty /\ flags_rhs = INTERSECTION_EVENTS) =>
                /\ contains(flags_out, INTERSECTION_EVENTS)
                /\ ~contains(flags_out, CONTACT_EVENTS)
                /\ flags_out = INTERSECTION_EVENTS

\* INTERSECTION_EVENTS | CONTACT_EVENTS has been computed
C10_Witness ==
    /\ flags_op = "bitor"
    /\ flags_lhs = INTERSECTION_EVENTS
    /\ flags_rhs = CONTACT_EVENTS
    /\ flags_out = 3

(* C11: a default-constructed mask is the empty mask: no bit of it is set, *)
(* and it contains neither INTERSECTION_EVENTS nor CONTACT_EVENTS.         *)
C11_DefaultIsEmpty ==
    flags_op = "fresh" =>
        /\ flags_out = 0
        /\ flags_out = empty
        /\ ~contains(flags_out, INTERSECTION_EVENTS)
        /\ ~contains(flags_out, CONTACT_EVENTS)
        /\ \A f \in NamedFlags : ~HasBit(flags_out, f)

\* ActiveEvents::default() has been evaluated, beside a mask with every flag
C11_Witness ==
    /\ flags_op = "fresh"
    /\ flags_out = 0
    /\ flags_lhs = 3

(* C12: handle_contact_event puts on the contact stream the ContactEvent   *)
(* it was given, unchanged (same variant, same colliders), and nothing     *)
(* else: whatever the borrowed ContactPair of the call, the step that ends *)
(* the call leaves both streams as a function of the event alone, and no   *)
(* message on the contact stream differs from the event of its call.  Two  *)
(* runs making the same calls with different ContactPairs therefore end    *)
(* with the same streams.                                                  *)
C12_ContactPairNotForwarded ==
    /\ [](\A i \in DOMAIN Stream("contact") :
            LET m == Stream("contact")[i] IN
                /\ m.seq \in 1..pos[m.by]
                /\ m = CallMsg(m.by, m.seq)
                /\ m.event \in ContactEvent)
    /\ [][\A t \in Threads : \A p \in ContactPair :
            (CallEnds(t) /\ pc[t] = "handle_contact_event" /\ contact_pair[t] = p) =>
                /\ received'["intersection"] = received["intersection"]
                /\ queue'["intersection"] = queue["intersection"]
                /\ contact_pair'[t] = NoPair
                /\ IF alive["contact"]
                   THEN received'["contact"] \o queue'["contact"] =
                            Append(Stream("contact"), CallMsg(t, pos[t]))
                   ELSE /\ received'["contact"] = received["contact"]
                        /\ queue'["contact"] = queue["contact"]
         ]_vars

\* a Started and a Stopped event are on the contact stream, and a further
\* contact call is in progress with the other ContactPair detail
C12_Witness ==
    \E t \in Threads :
        /\ pc[t] = "handle_contact_event"
        /\ contact_pair[t] = 2
        /\ pos[t] = 3
        /\ Len(Stream("contact")) = 2
        /\ Stream("contact")[1].event.tag = "Started"
        /\ Stream("contact")[2].event.tag = "Stopped"

\* the calls of worker t that have returned
Completed(t) == IF InCall(t) THEN pos[t] - 1 ELSE pos[t]

\* the returned calls of the handler of category c with event e, over all workers
CallsWith(c, e) ==
    {<<t, k>> \in Threads \X (1..MaxCalls) :
        k <= Completed(t) /\ script[t][k].kind = c /\ script[t][k].event = e}

\* the places of event e in a sequence of messages
CopiesOf(msgs, e) == {i \in DOMAIN msgs : msgs[i].event = e}

(* C13: the collector neither deduplicates nor filters: while the Receiver *)
(* of a category is alive, the number of copies of an event on that        *)
(* category's stream is the number of returned calls of its handler with   *)
(* that event, so k calls with the same event leave exactly k copies.      *)
C13_EveryCallCounts ==
    handler = "ChannelEventCollector" =>
        \A c \in Chans : alive[c] =>
            \A w \in WorkItem : w.kind = c =>
                Cardinality(CopiesOf(Stream(c), w.event)) = Cardinality(CallsWith(c, w.event))

\* three calls with the same event have left three copies of it, pending
C13_Witness ==
    \E c \in Chans : \E w \in WorkItem :
        /\ w.kind = c
        /\ alive[c]
        /\ \A t \in Threads : pc[t] = "idle"
        /\ Cardinality(CallsWith(c, w.event)) = 3
        /\ Cardinality(CopiesOf(queue[c], w.event)) = 3

(* C14 as stated: a handler call discards its event only if the Receiver   *)
(* of its category is gone when the send takes effect; with the Receiver   *)
(* alive, the call ends with the event pending on that category's queue.   *)
C14_AliveEndsPending ==
    [][\A t \in Threads : \A c \in Chans :
        (CallEnds(t) /\ c = CallCategory(t)) =>
            /\ result'[t] = "Err" => ~alive[c]
            /\ alive[c] => queue'[c] = Append(queue[c], CallMsg(t, pos[t]))
      ]_vars

(* C14 amended: a handler call discards its event only if the Receiver of  *)
(* its category is gone when the send takes effect; with the Receiver      *)
(* alive, the call ends with Ok and the event on that category's stream:   *)
(* pending on the queue, or, on a zero-capacity channel, taken by the      *)
(* receiver.  So while a Receiver is alive, the event of every returned    *)
(* call of its category is on the stream.                                  *)
C14_AliveEndsOnStream ==
    /\ [](handler = "ChannelEventCollector" =>
            \A t \in Threads : \A k \in 1..Completed(t) :
                alive[script[t][k].kind] => Count(Stream(script[t][k].kind), t, k) = 1)
    /\ [][\A t \in Threads : \A c \in Chans :
            (CallEnds(t) /\ c = CallCategory(t)) =>
                /\ result'[t] = "Err" <=> ~alive[c]
                /\ result'[t] = "Ok" <=> alive[c]
                /\ alive[c] =>
                        /\ received'[c] \o queue'[c] = Append(Stream(c), CallMsg(t, pos[t]))
                        /\ cap[c] # 0 => queue'[c] = Append(queue[c], CallMsg(t, pos[t]))
                        /\ cap[c] = 0 => queue'[c] = <<>>
         ]_vars

\* on a bounded channel, a call that had to wait for room has ended with its
\* event pending behind a received one; on the other, dropped, category a
\* call has ended with its event discarded
C14_Witness ==
    \E t, u \in Threads : \E c \in Chans :
        /\ cap[c] = 1
        /\ alive[c]
        /\ ~alive[Other(c)]
        /\ Len(received[c]) = 1
        /\ pc[t] = "idle" /\ result[t] = "Ok"
        /\ script[t][pos[t]].kind = c
        /\ Count(queue[c], t, pos[t]) = 1
        /\ pc[u] = "idle" /\ result[u] = "Err"
        /\ script[u][pos[u]].kind = Other(c)

\* sequence a is an initial part of sequence b
IsPrefix(a, b) == Len(a) <= Len(b) /\ SubSeq(b, 1, Len(a)) = a

(* C15: handler calls only append: a step of a worker, entering a handler  *)
(* method or ending its call, removes, replaces or reorders nothing that   *)
(* is pending: each queue before the step is a prefix of the queue after   *)
(* it, longer by at most the one message of the call.                      *)
C15_HandlersOnlyAppend ==
    [][\A t \in Threads :
        (pc'[t] # pc[t] \/ pos'[t] # pos[t]) =>
            \A c \in Chans :
                /\ IsPrefix(queue[c], queue'[c])
                /\ Len(queue'[c]) <= Len(queue[c]) + 1
                /\ IsPrefix(received[c], received'[c])
      ]_vars

\* a call has ended with its event pending behind the event of an earlier call
C15_Witness ==
    \E t \in Threads : \E c \in Chans :
        /\ pc[t] = "idle" /\ result[t] = "Ok"
        /\ script[t][pos[t]].kind = c
        /\ Len(queue[c]) >= 2
        /\ queue[c][Len(queue[c])] = CallMsg(t, pos[t])
        /\ queue[c][1].by # t

====
